---- MODULE Spec2Model ----
(***************************************************************************)
(* The race-record cleaning pipeline of src/src/cleaning.py, run over the  *)
(* repository's own dataframe shim (src/pandas/__init__.py).               *)
(*                                                                         *)
(* A cell value is a record [t, n, s]:                                     *)
(*   t = "na"  Python None                                                 *)
(*   t = "i"   Python int,   n = the value in tenths (n % 10 = 0)          *)
(*   t = "f"   Python float, n = the value in tenths                       *)
(*   t = "s"   Python str,   s = its characters                            *)
(*   t = "M"   datetime,     n = minutes on a calendar of 31-day months    *)
(* Numbers are kept in tenths so that truncation (int()) and rounding      *)
(* (round()) are real conversions; texts are sequences of characters so    *)
(* that float(), int(), strip(), lower() and the parsers' character loops  *)
(* are computed, not looked up.  Texts carry at most one fractional digit. *)
(***************************************************************************)
EXTENDS Integers, Sequences, FiniteSets, TLC

VARIABLES
    csv_in,       \* the input file
    raw_df,       \* __main__'s raw_df
    cleaned_df,   \* __main__'s cleaned_df
    ordered_df,   \* __main__'s ordered_df
    csv_out,      \* the output file
    pc,           \* the statement of __main__ to run next
    error,        \* the exception that ended the run, NoError if none
    completed,    \* the calls that have returned, in order
    arg,          \* the argument of a helper called on its own
    ret           \* what that helper returned

vars == <<csv_in, raw_df, cleaned_df, ordered_df, csv_out, pc, error, completed,
          arg, ret>>

----------------------------------------------------------------------------
(* Values *)

NA == [t |-> "na", n |-> 0, s |-> <<>>]
PyInt(k) == [t |-> "i", n |-> 10 * k, s |-> <<>>]
PyFloat(tenths) == [t |-> "f", n |-> tenths, s |-> <<>>]
PyStr(chars) == [t |-> "s", n |-> 0, s |-> chars]
PyDatetime(minutes) == [t |-> "M", n |-> minutes, s |-> <<>>]

isna(value) == value.t = "na"

IsNumber(value) == value.t \in {"i", "f"}

----------------------------------------------------------------------------
(* Python text primitives *)

Digits == {"0", "1", "2", "3", "4", "5", "6", "7", "8", "9"}

DigitVal(c) ==
    CASE c = "0" -> 0 [] c = "1" -> 1 [] c = "2" -> 2 [] c = "3" -> 3
      [] c = "4" -> 4 [] c = "5" -> 5 [] c = "6" -> 6 [] c = "7" -> 7
      [] c = "8" -> 8 [] c = "9" -> 9

DigitChar(d) ==
    CASE d = 0 -> "0" [] d = 1 -> "1" [] d = 2 -> "2" [] d = 3 -> "3"
      [] d = 4 -> "4" [] d = 5 -> "5" [] d = 6 -> "6" [] d = 7 -> "7"
      [] d = 8 -> "8" [] d = 9 -> "9"

Upper == {"A", "B", "D", "F", "M", "N", "P", "R", "S", "U", "Y"}

LowerChar(c) ==
    CASE c = "A" -> "a" [] c = "B" -> "b" [] c = "D" -> "d" [] c = "F" -> "f"
      [] c = "M" -> "m" [] c = "N" -> "n" [] c = "P" -> "p" [] c = "R" -> "r"
      [] c = "S" -> "s" [] c = "U" -> "u" [] c = "Y" -> "y"
      [] OTHER -> c

lower(text) == [i \in 1..Len(text) |-> LowerChar(text[i])]

RECURSIVE lstrip(_)
lstrip(text) ==
    IF text # <<>> /\ Head(text) = " " THEN lstrip(Tail(text)) ELSE text

RECURSIVE rstrip(_)
rstrip(text) ==
    IF text # <<>> /\ text[Len(text)] = " "
    THEN rstrip(SubSeq(text, 1, Len(text) - 1))
    ELSE text

strip(text) == rstrip(lstrip(text))

AllDigits(text) == \A i \in 1..Len(text) : text[i] \in Digits

RECURSIVE DigitsVal(_)
DigitsVal(text) ==
    IF text = <<>> THEN 0
    ELSE 10 * DigitsVal(SubSeq(text, 1, Len(text) - 1)) + DigitVal(text[Len(text)])

Contains(text, ch) == \E i \in 1..Len(text) : text[i] = ch

IndexOf(text, ch) == CHOOSE i \in 1..Len(text) :
                        text[i] = ch /\ \A j \in 1..(i - 1) : text[j] # ch

Count(text, ch) == Cardinality({i \in 1..Len(text) : text[i] = ch})

(* float(text) for an unsigned literal: digits, an optional point, at most  *)
(* one fractional digit; at least one digit in all.                         *)
UnsignedFloat(body) ==
    IF ~Contains(body, ".")
    THEN IF body # <<>> /\ AllDigits(body)
         THEN [ok |-> TRUE, n |-> 10 * DigitsVal(body)]
         ELSE [ok |-> FALSE, n |-> 0]
    ELSE LET p == IndexOf(body, ".")
             whole == SubSeq(body, 1, p - 1)
             frac == SubSeq(body, p + 1, Len(body))
         IN IF /\ AllDigits(whole) /\ AllDigits(frac)
               /\ Len(whole) + Len(frac) > 0
               /\ Len(frac) <= 1
            THEN [ok |-> TRUE, n |-> 10 * DigitsVal(whole) + DigitsVal(frac)]
            ELSE [ok |-> FALSE, n |-> 0]

(* float(str): surrounding whitespace and one sign are accepted *)
FloatOfText(text) ==
    LET t == strip(text)
    IN IF t # <<>> /\ Head(t) \in {"-", "+"}
       THEN LET r == UnsignedFloat(Tail(t))
            IN IF Head(t) = "-" THEN [ok |-> r.ok, n |-> 0 - r.n] ELSE r
       ELSE UnsignedFloat(t)

(* int(str): surrounding whitespace and one sign, digits only *)
IntOfText(text) ==
    LET t == strip(text)
        neg == t # <<>> /\ Head(t) = "-"
        body == IF t # <<>> /\ Head(t) \in {"-", "+"} THEN Tail(t) ELSE t
    IN IF body # <<>> /\ AllDigits(body)
       THEN [ok |-> TRUE, n |-> IF neg THEN 0 - 10 * DigitsVal(body) ELSE 10 * DigitsVal(body)]
       ELSE [ok |-> FALSE, n |-> 0]

(* int(x) of a number in tenths: truncation toward zero *)
Trunc(n) == IF n >= 0 THEN 10 * (n \div 10) ELSE 0 - 10 * ((0 - n) \div 10)

(* round(x) of a number in tenths: to the nearest whole, ties to even *)
RoundHalfEven(n) ==
    LET q == n \div 10
        r == n % 10
    IN IF r < 5 THEN 10 * q
       ELSE IF r > 5 THEN 10 * (q + 1)
       ELSE IF q % 2 = 0 THEN 10 * q ELSE 10 * (q + 1)

(* float(v) *)
PyFloatOf(value) ==
    CASE value.t \in {"i", "f"} -> [ok |-> TRUE, n |-> value.n]
      [] value.t = "s" -> FloatOfText(value.s)
      [] OTHER -> [ok |-> FALSE, n |-> 0]

(* int(v) *)
PyIntOf(value) ==
    CASE value.t \in {"i", "f"} -> [ok |-> TRUE, n |-> Trunc(value.n)]
      [] value.t = "s" -> IntOfText(value.s)
      [] OTHER -> [ok |-> FALSE, n |-> 0]

----------------------------------------------------------------------------
(* Python equality and order of cell values *)

(* a == b: numbers by value whatever their type, None only to None *)
PyEq(a, b) ==
    CASE IsNumber(a) /\ IsNumber(b) -> a.n = b.n
      [] a.t = "s" /\ b.t = "s" -> a.s = b.s
      [] a.t = "M" /\ b.t = "M" -> a.n = b.n
      [] OTHER -> a.t = "na" /\ b.t = "na"

(* set(values): the values up to ==, as the earliest representative of each *)
Distinct(values) ==
    {i \in 1..Len(values) : \A j \in 1..(i - 1) : ~PyEq(values[j], values[i])}

(* a < b is defined between two numbers and between two datetimes *)
Comparable(a, b) ==
    \/ IsNumber(a) /\ IsNumber(b)
    \/ a.t = "M" /\ b.t = "M"

----------------------------------------------------------------------------
(* str(value) and datetime text *)

RECURSIVE NatText(_)
NatText(k) ==
    IF k < 10 THEN <<DigitChar(k)>>
    ELSE Append(NatText(k \div 10), DigitChar(k % 10))

Pad2(k) == IF k < 10 THEN <<"0">> \o NatText(k) ELSE NatText(k)

RECURSIVE Pad4(_)
Pad4(text) == IF Len(text) < 4 THEN Pad4(<<"0">> \o text) ELSE text

MinutesOf(y, mo, d, h, mi) == ((((y * 12 + (mo - 1)) * 31 + (d - 1)) * 24) + h) * 60 + mi

(* datetime.isoformat(sep) *)
isoformat_sep(minutes, sep) ==
    LET mi == minutes % 60
        h == (minutes \div 60) % 24
        days == minutes \div 1440
        d == (days % 31) + 1
        mo == ((days \div 31) % 12) + 1
        y == days \div 372
    IN Pad4(NatText(y)) \o <<"-">> \o Pad2(mo) \o <<"-">> \o Pad2(d) \o <<sep>>
       \o Pad2(h) \o <<":">> \o Pad2(mi) \o <<":", "0", "0">>

isoformat(minutes) == isoformat_sep(minutes, "T")

(* str(v) *)
PyStrOf(value) ==
    CASE value.t = "s" -> value.s
      [] value.t = "na" -> <<"N", "o", "n", "e">>
      [] value.t = "M" -> isoformat_sep(value.n, " ")
      [] value.t = "i" ->
            IF value.n < 0 THEN <<"-">> \o NatText((0 - value.n) \div 10)
            ELSE NatText(value.n \div 10)
      [] value.t = "f" ->
            LET a == IF value.n < 0 THEN 0 - value.n ELSE value.n
                body == NatText(a \div 10) \o <<".">> \o NatText(a % 10)
            IN IF value.n < 0 THEN <<"-">> \o body ELSE body

(* datetime.fromisoformat(text) for a date "YYYY-MM-DD" *)
fromisoformat(text) ==
    IF /\ Len(text) = 10
       /\ text[5] = "-" /\ text[8] = "-"
       /\ AllDigits(SubSeq(text, 1, 4))
       /\ AllDigits(SubSeq(text, 6, 7))
       /\ AllDigits(SubSeq(text, 9, 10))
    THEN LET y == DigitsVal(SubSeq(text, 1, 4))
             mo == DigitsVal(SubSeq(text, 6, 7))
             d == DigitsVal(SubSeq(text, 9, 10))
         IN IF y >= 1 /\ mo \in 1..12 /\ d \in 1..31
            THEN [ok |-> TRUE, n |-> MinutesOf(y, mo, d, 0, 0)]
            ELSE [ok |-> FALSE, n |-> 0]
    ELSE [ok |-> FALSE, n |-> 0]

(* datetime.strptime(text, "%H:%M"): a time on 1900-01-01 *)
strptime_HM(text) ==
    IF Count(text, ":") = 1
    THEN LET p == IndexOf(text, ":")
             hh == SubSeq(text, 1, p - 1)
             mm == SubSeq(text, p + 1, Len(text))
         IN IF /\ Len(hh) \in 1..2 /\ Len(mm) \in 1..2
               /\ AllDigits(hh) /\ AllDigits(mm)
               /\ DigitsVal(hh) <= 23 /\ DigitsVal(mm) <= 59
            THEN [ok |-> TRUE, n |-> MinutesOf(1900, 1, 1, DigitsVal(hh), DigitsVal(mm))]
            ELSE [ok |-> FALSE, n |-> 0]
    ELSE [ok |-> FALSE, n |-> 0]

----------------------------------------------------------------------------
(* The dataframe shim: a DataFrame is [columns, rows], a row a function    *)
(* from its keys to values; a Series is a sequence of values.              *)

Get(row, col) == IF col \in DOMAIN row THEN row[col] ELSE NA

SeqToSet(q) == {q[i] : i \in 1..Len(q)}

RECURSIVE SelectSeq2(_, _)
(* the elements of q whose index is in keep, in order *)
SelectSeq2(q, keep) ==
    IF q = <<>> THEN <<>>
    ELSE LET n == Len(q)
             front == SelectSeq2(SubSeq(q, 1, n - 1), keep)
         IN IF n \in keep THEN Append(front, q[n]) ELSE front

(* DataFrame(data): the columns are the keys of the first row *)
DataFrame(keys, rows) ==
    [columns |-> IF rows = <<>> THEN <<>> ELSE keys, rows |-> rows]

EmptyFrame == DataFrame(<<>>, <<>>)

(* df[key] for one column name *)
Column(df, key) == [i \in 1..Len(df.rows) |-> Get(df.rows[i], key)]

(* Series.dtype.kind: the type of the first non-null value *)
dtype_kind(series) ==
    LET present == {i \in 1..Len(series) : ~isna(series[i])}
    IN IF present = {} THEN "O"
       ELSE LET sample == series[CHOOSE i \in present : \A j \in present : i <= j]
            IN CASE sample.t = "M" -> "M"
                 [] sample.t = "f" -> "f"
                 [] sample.t = "i" -> "i"
                 [] OTHER -> "O"

(* DataFrame.drop(columns=col) *)
drop(df, col) ==
    DataFrame(SelectSeq(df.columns, LAMBDA c : c # col),
              [i \in 1..Len(df.rows) |->
                  [k \in DOMAIN df.rows[i] \ {col} |-> df.rows[i][k]]])

(* DataFrame.dropna(subset) *)
dropna(df, subset) ==
    DataFrame(df.columns,
              SelectSeq2(df.rows, {i \in 1..Len(df.rows) :
                  \A col \in subset : ~isna(Get(df.rows[i], col))}))

(* the comparison with >= in place of > *)
GeZero(series) ==
    [i \in 1..Len(series) |-> IF isna(series[i]) THEN "None"
                              ELSE IF series[i].n >= 0 THEN "True" ELSE "False"]

(* Series > 0: None where the value is None *)
GtZero(series) ==
    [i \in 1..Len(series) |-> IF isna(series[i]) THEN "None"
                              ELSE IF series[i].n > 0 THEN "True" ELSE "False"]

(* df[mask]: the rows whose mask entry is truthy *)
FilterMask(df, mask) ==
    DataFrame(df.columns,
              SelectSeq2(df.rows, {i \in 1..Len(df.rows) : mask[i] = "True"}))

(* df[list_of_columns] *)
Project(df, keys) ==
    DataFrame(keys,
              [i \in 1..Len(df.rows) |->
                  [k \in SeqToSet(keys) |-> Get(df.rows[i], k)]])

(* df[key] = series *)
SetColumn(df, key, series) ==
    [columns |-> IF key \in SeqToSet(df.columns) THEN df.columns
                 ELSE Append(df.columns, key),
     rows |-> IF df.rows = <<>>
              THEN [i \in 1..Len(series) |-> [k \in {key} |-> series[i]]]
              ELSE [i \in 1..Len(df.rows) |->
                       IF i <= Len(series)
                       THEN [k \in DOMAIN df.rows[i] \cup {key} |->
                                IF k = key THEN series[i] ELSE df.rows[i][k]]
                       ELSE df.rows[i]]]

(* df[key] = scalar *)
SetScalar(df, key, value) ==
    SetColumn(df, key, [i \in 1..Len(df.rows) |-> value])

(* DataFrame.duplicated(subset): a row is flagged when an earlier row has  *)
(* the same key tuple                                                      *)
duplicated(df, subset) ==
    [i \in 1..Len(df.rows) |->
        \E j \in 1..(i - 1) :
            \A col \in subset : PyEq(Get(df.rows[j], col), Get(df.rows[i], col))]

(* DataFrame.groupby(key): the groups in order of first appearance, each   *)
(* the row indices of the group in table order                             *)
groupby(df, key) ==
    LET keyvals == Column(df, key)
        firsts == SelectSeq2([i \in 1..Len(keyvals) |-> i], Distinct(keyvals))
    IN [g \in 1..Len(firsts) |->
           [key |-> keyvals[firsts[g]],
            frame |-> DataFrame(df.columns,
                        SelectSeq2(df.rows, {i \in 1..Len(keyvals) :
                                         PyEq(keyvals[i], keyvals[firsts[g]])}))]]

(* Series.nunique(dropna=True) *)
nunique(series) ==
    LET present == SelectSeq(series, LAMBDA v : ~isna(v))
    IN Cardinality(Distinct(present))

(* Series.dropna() *)
series_dropna(series) == SelectSeq(series, LAMBDA v : ~isna(v))

(* Series.astype("Int64" | "int"): int(v), None where it fails *)
astype_int(series) ==
    [i \in 1..Len(series) |->
        IF isna(series[i]) THEN NA
        ELSE LET r == PyIntOf(series[i])
             IN IF r.ok THEN [t |-> "i", n |-> r.n, s |-> <<>>] ELSE NA]

(* Series.astype("Float64"): float(v), None where it fails *)
astype_float(series) ==
    [i \in 1..Len(series) |->
        IF isna(series[i]) THEN NA
        ELSE LET r == PyFloatOf(series[i])
             IN IF r.ok THEN PyFloat(r.n) ELSE NA]

(* Series.round(): round(float(v)), an int *)
series_round(series) ==
    [i \in 1..Len(series) |->
        IF isna(series[i]) THEN NA
        ELSE [t |-> "i", n |-> RoundHalfEven(PyFloatOf(series[i]).n), s |-> <<>>]]

(* pd.to_numeric(series, errors="coerce") *)
to_numeric(series) ==
    [i \in 1..Len(series) |->
        IF isna(series[i]) THEN NA
        ELSE LET r == PyFloatOf(series[i])
             IN IF r.ok THEN PyFloat(r.n) ELSE NA]

(* pd.to_datetime(series, errors="coerce") *)
to_datetime(series) ==
    [i \in 1..Len(series) |->
        LET v == series[i]
        IN IF isna(v) THEN NA
           ELSE IF v.t = "M" THEN v
           ELSE LET text == PyStrOf(v)
                    iso == fromisoformat(text)
                    hm == strptime_HM(text)
                IN IF iso.ok THEN PyDatetime(iso.n)
                   ELSE IF hm.ok THEN PyDatetime(hm.n)
                   ELSE NA]

----------------------------------------------------------------------------
(* Schema registry *)

OBS_PREFIX == <<"o", "b", "s", "_", "_">>

(* The column names in use, with their characters: str.startswith works on *)
(* the characters.                                                         *)
NameChars(col) ==
    CASE col = "obs__finish_position" ->
            <<"o", "b", "s", "_", "_", "f", "i", "n", "i", "s", "h", "_", "p", "o", "s", "i", "t", "i", "o", "n">>
      [] col = "obs__speed" ->
            <<"o", "b", "s", "_", "_", "s", "p", "e", "e", "d">>
      [] col = "finish_position" ->
            <<"f", "i", "n", "i", "s", "h", "_", "p", "o", "s", "i", "t", "i", "o", "n">>
      [] col = "race_id" ->
            <<"r", "a", "c", "e", "_", "i", "d">>
      [] col = "horse_id" ->
            <<"h", "o", "r", "s", "e", "_", "i", "d">>
      [] col = "date" ->
            <<"d", "a", "t", "e">>
      [] col = "race_time" ->
            <<"r", "a", "c", "e", "_", "t", "i", "m", "e">>
      [] col = "racecourse" ->
            <<"r", "a", "c", "e", "c", "o", "u", "r", "s", "e">>
      [] col = "race_type_simple" ->
            <<"r", "a", "c", "e", "_", "t", "y", "p", "e", "_", "s", "i", "m", "p", "l", "e">>
      [] col = "distance" ->
            <<"d", "i", "s", "t", "a", "n", "c", "e">>
      [] col = "n_runners" ->
            <<"n", "_", "r", "u", "n", "n", "e", "r", "s">>
      [] col = "draw" ->
            <<"d", "r", "a", "w">>
      [] col = "age" ->
            <<"a", "g", "e">>
      [] col = "weight_lbs" ->
            <<"w", "e", "i", "g", "h", "t", "_", "l", "b", "s">>
      [] OTHER -> <<"?">>

(* col.startswith(OBS_PREFIX) *)
startswith_obs(col) ==
    LET name == NameChars(col)
    IN Len(name) >= Len(OBS_PREFIX) /\ SubSeq(name, 1, Len(OBS_PREFIX)) = OBS_PREFIX

(* a schema that declares the raw outcome column in place of the derived one *)
REQUIRED_ITEMS_raw_outcome ==
    << <<"race_id", "int">>,
       <<"horse_id", "int">>,
       <<"date", "datetime64[ns]">>,
       <<"race_time", "datetime64[ns]">>,
       <<"racecourse", "object">>,
       <<"race_type_simple", "object">>,
       <<"distance", "float">>,
       <<"n_runners", "int">>,
       <<"draw", "float">>,
       <<"age", "float">>,
       <<"weight_lbs", "float">>,
       <<"obs__finish_position", "Int64">> >>

(* REQUIRED_COLUMNS: the schema's items in declared order *)
REQUIRED_ITEMS ==
    << <<"race_id", "int">>,
       <<"horse_id", "int">>,
       <<"date", "datetime64[ns]">>,
       <<"race_time", "datetime64[ns]">>,
       <<"racecourse", "object">>,
       <<"race_type_simple", "object">>,
       <<"distance", "float">>,
       <<"n_runners", "int">>,
       <<"draw", "float">>,
       <<"age", "float">>,
       <<"weight_lbs", "float">>,
       <<"finish_position", "Int64">> >>

(* SCHEMA.ordered_columns: list(required_columns.keys()) *)
ordered_columns == [i \in 1..Len(REQUIRED_ITEMS) |-> REQUIRED_ITEMS[i][1]]

(* REQUIRED_COLUMNS[col] *)
REQUIRED_COLUMNS(col) ==
    REQUIRED_ITEMS[CHOOSE i \in 1..Len(REQUIRED_ITEMS) : REQUIRED_ITEMS[i][1] = col][2]

(* load_raw_data's dtype_map; "" where the column is not listed *)
dtype_map(col) ==
    CASE col \in {"race_id", "horse_id"} -> "int64"
      [] col \in {"racecourse", "race_type_simple"} -> "string"
      [] col \in {"distance", "draw", "age", "weight_lbs"} -> "float64"
      [] col = "n_runners" -> "Int64"
      [] OTHER -> ""

----------------------------------------------------------------------------
(* Errors *)

NoError == [kind |-> "none", stage |-> "", cols |-> {}, race |-> NA,
            expected |-> NA, found |-> 0]

Raise(kind, stage, cols, race, expected, found) ==
    [kind |-> kind, stage |-> stage, cols |-> cols, race |-> race,
     expected |-> expected, found |-> found]

----------------------------------------------------------------------------
(* Loading *)

(* _coerce_value: int(val), else float(val), else the text *)
coerce_value(text) ==
    LET asint == IntOfText(text)
        asfloat == FloatOfText(text)
    IN IF asint.ok THEN [t |-> "i", n |-> asint.n, s |-> <<>>]
       ELSE IF asfloat.ok THEN PyFloat(asfloat.n)
       ELSE PyStr(text)

(* read_csv's conversion of one cell *)
parse_cell(key, text) ==
    LET desired == dtype_map(key)
        asfloat == FloatOfText(text)
    IN IF text = <<>> THEN NA
       ELSE IF desired = "int64"
            THEN IF asfloat.ok THEN [t |-> "i", n |-> Trunc(asfloat.n), s |-> <<>>] ELSE NA
       ELSE IF desired = "float64"
            THEN IF asfloat.ok THEN PyFloat(asfloat.n) ELSE NA
       ELSE IF desired \in {"string", "Int64"} THEN PyStr(text)
       ELSE coerce_value(text)

(* pd.read_csv(path, dtype=dtype_map) *)
read_csv(csv) ==
    DataFrame(csv.header,
              [i \in 1..Len(csv.rows) |->
                  [k \in SeqToSet(csv.header) |-> parse_cell(k, csv.rows[i][k])]])

load_raw_data(csv) == read_csv(csv)

----------------------------------------------------------------------------
(* Schema validation *)

(* whether a present required column passes its dtype check *)
dtype_ok(df, col) ==
    LET kind == dtype_kind(Column(df, col))
        expected == REQUIRED_COLUMNS(col)
    IN CASE expected = "datetime64[ns]" -> kind \in {"M", "O"}
         [] expected = "Int64" -> kind \in {"i", "O"}
         [] expected = "int" -> kind \in {"i", "O"}
         [] expected = "float" -> kind \in {"f", "O"}
         [] expected = "object" -> kind = "O"

(* the duplicate flags reduced with .all() in place of .any() *)
has_duplicate_keys_all(df) ==
    LET dup == duplicated(df, {"race_id", "horse_id"})
    IN \A i \in 1..Len(dup) : dup[i]

(* df.duplicated(subset=["race_id", "horse_id"]).any() *)
has_duplicate_keys(df) ==
    LET dup == duplicated(df, {"race_id", "horse_id"})
    IN \E i \in 1..Len(dup) : dup[i]

(* the set difference taken the other way round *)
missing_columns_reversed(df) == SeqToSet(df.columns) \ SeqToSet(ordered_columns)

(* set(SCHEMA.required_columns) - set(df.columns) *)
missing_columns(df) == SeqToSet(ordered_columns) \ SeqToSet(df.columns)

(* validate_schema with the duplicate check moved in front of the others *)
validate_schema_duplicates_first(df) ==
    LET missing == missing_columns(df)
        bad == {i \in 1..Len(ordered_columns) :
                   /\ ordered_columns[i] \in SeqToSet(df.columns)
                   /\ ~dtype_ok(df, ordered_columns[i])}
    IN IF has_duplicate_keys(df)
       THEN Raise("duplicate_key", "validate_schema", {"race_id", "horse_id"}, NA, NA, 0)
       ELSE IF missing # {}
       THEN Raise("missing_columns", "validate_schema", missing, NA, NA, 0)
       ELSE IF bad # {}
       THEN Raise("dtype", "validate_schema",
                  {ordered_columns[CHOOSE i \in bad : \A j \in bad : i <= j]}, NA, NA, 0)
       ELSE NoError

(* validate_schema: the error it raises, NoError when it returns *)
validate_schema(df) ==
    LET missing == missing_columns(df)
        bad == {i \in 1..Len(ordered_columns) :
                   /\ ordered_columns[i] \in SeqToSet(df.columns)
                   /\ ~dtype_ok(df, ordered_columns[i])}
    IN IF missing # {}
       THEN Raise("missing_columns", "validate_schema", missing, NA, NA, 0)
       ELSE IF bad # {}
       THEN Raise("dtype", "validate_schema",
                  {ordered_columns[CHOOSE i \in bad : \A j \in bad : i <= j]}, NA, NA, 0)
       ELSE IF has_duplicate_keys(df)
       THEN Raise("duplicate_key", "validate_schema", {"race_id", "horse_id"}, NA, NA, 0)
       ELSE NoError

----------------------------------------------------------------------------
(* Cleaning helpers *)

(* text.split("-") when it has exactly two parts *)
SplitDash(text) ==
    LET p == IndexOf(text, "-")
    IN <<SubSeq(text, 1, p - 1), SubSeq(text, p + 1, Len(text))>>

(* _parse_weight *)
parse_weight(value) ==
    IF isna(value) THEN NA
    ELSE IF IsNumber(value) THEN PyFloat(value.n)
    ELSE LET text == PyStrOf(value)
         IN IF Contains(text, "-")
            THEN IF Count(text, "-") # 1 THEN NA
                 ELSE LET stones == FloatOfText(SplitDash(text)[1])
                          pounds == FloatOfText(SplitDash(text)[2])
                      IN IF stones.ok /\ pounds.ok
                         THEN PyFloat(stones.n * 14 + pounds.n)
                         ELSE NA
            ELSE LET r == FloatOfText(text)
                 IN IF r.ok THEN PyFloat(r.n) ELSE NA

(* float(num) inside _parse_distance: 0.0 where it fails *)
MagnitudeOf(num) ==
    LET r == UnsignedFloat(num) IN IF r.ok THEN r.n ELSE 0

RECURSIVE distance_loop(_, _, _)
(* the character loop of _parse_distance: the yards (in tenths) *)
distance_loop(text, yards, num) ==
    IF text = <<>>
    THEN IF num # <<>> THEN yards + MagnitudeOf(num) ELSE yards
    ELSE LET ch == Head(text)
         IN IF ch \in Digits \/ ch = "."
            THEN distance_loop(Tail(text), yards, Append(num, ch))
            ELSE IF ch = "m"
            THEN distance_loop(Tail(text), yards + MagnitudeOf(num) * 1760, <<>>)
            ELSE IF ch = "f"
            THEN distance_loop(Tail(text), yards + MagnitudeOf(num) * 220, <<>>)
            ELSE IF ch = "y"
            THEN distance_loop(Tail(text), yards + MagnitudeOf(num), <<>>)
            ELSE distance_loop(Tail(text), yards, num)

(* _parse_distance *)
parse_distance(value) ==
    IF isna(value) THEN NA
    ELSE IF IsNumber(value) THEN PyFloat(value.n)
    ELSE LET yards == distance_loop(lower(strip(PyStrOf(value))), 0, <<>>)
         IN IF yards > 0 THEN PyFloat(yards) ELSE NA

non_finish_codes ==
    {<<"p", "u">>, <<"u", "r">>, <<"f">>, <<"b", "d">>, <<"r", "o">>,
     <<"r", "e", "f">>, <<"v", "o", "i">>, <<"l", "f", "t">>, <<"s", "u">>,
     <<"d", "s", "q">>, <<"d", "n", "f">>, <<"o", "t">>, <<"o", "t", "d">>,
     <<"b", "f">>}

(* _standardize_finish *)
standardize_finish(value) ==
    IF isna(value) THEN NA
    ELSE LET text == lower(strip(PyStrOf(value)))
             num == FloatOfText(text)
         IN IF text \in non_finish_codes THEN NA
            ELSE IF num.ok /\ num.n > 0 THEN PyFloat(num.n)
            ELSE NA

----------------------------------------------------------------------------
(* clean_fields *)

RECURSIVE drop_obs_loop(_, _, _)
(* the loop over list(df.columns): every obs__ column is dropped except    *)
(* obs__finish_position, which is kept as finish_source ("" is None)       *)
drop_obs_loop(cols, df, finish_source) ==
    IF cols = <<>> THEN [df |-> df, finish_source |-> finish_source]
    ELSE LET col == Head(cols)
         IN IF startswith_obs(col)
            THEN IF col = "obs__finish_position" /\ finish_source = ""
                 THEN drop_obs_loop(Tail(cols), df, col)
                 ELSE drop_obs_loop(Tail(cols), drop(df, col), finish_source)
            ELSE drop_obs_loop(Tail(cols), df, finish_source)

(* df["date"] = pd.to_datetime(df["date"], errors="coerce") *)
set_date(df) == SetColumn(df, "date", to_datetime(Column(df, "date")))

set_race_time(df) == SetColumn(df, "race_time", to_datetime(Column(df, "race_time")))

(* df["age"] = pd.to_numeric(df["age"], errors="coerce") *)
set_age(df) == SetColumn(df, "age", to_numeric(Column(df, "age")))

set_draw(df) == SetColumn(df, "draw", to_numeric(Column(df, "draw")))

(* df["weight_lbs"].apply(_parse_weight), then pd.to_numeric *)
set_weight_lbs(df) ==
    SetColumn(df, "weight_lbs",
        to_numeric([i \in 1..Len(df.rows) |-> parse_weight(Get(df.rows[i], "weight_lbs"))]))

(* df["distance"].apply(_parse_distance), then pd.to_numeric *)
set_distance(df) ==
    SetColumn(df, "distance",
        to_numeric([i \in 1..Len(df.rows) |-> parse_distance(Get(df.rows[i], "distance"))]))

(* pd.to_numeric(series, errors="coerce").astype("Int64") *)
to_Int64(series) == astype_int(to_numeric(series))

set_n_runners(df) == SetColumn(df, "n_runners", to_Int64(Column(df, "n_runners")))

(* "Parse date and time" and "Numeric conversions" *)
convert_fields(df) ==
    set_n_runners(set_distance(set_weight_lbs(set_draw(set_age(
        set_race_time(set_date(df)))))))

(* .apply(_standardize_finish).astype("Float64"), then .round().astype("Int64") *)
finish_label(series) ==
    astype_int(series_round(astype_float(
        [i \in 1..Len(series) |-> standardize_finish(series[i])])))

(* "Finish positions": the label is read from finish_source when there is  *)
(* one, else from finish_position; the source column is then dropped       *)
derive_finish(df, finish_source) ==
    IF finish_source # ""
    THEN drop(SetColumn(df, "finish_position", finish_label(Column(df, finish_source))),
              finish_source)
    ELSE SetColumn(df, "finish_position", finish_label(Column(df, "finish_position")))

essential_cols == {"race_id", "horse_id", "date", "race_time", "n_runners", "distance"}

(* df[df[col] > 0] *)
keep_positive(df, col) == FilterMask(df, GtZero(Column(df, col)))

(* "Remove rows with ... missing essentials" and "Drop impossible or       *)
(* invalid values"                                                         *)
row_filter(df) ==
    keep_positive(keep_positive(keep_positive(dropna(df, essential_cols),
        "age"), "distance"), "n_runners")

set_race_id(df) == SetColumn(df, "race_id", to_Int64(Column(df, "race_id")))

set_horse_id(df) == SetColumn(df, "horse_id", to_Int64(Column(df, "horse_id")))

(* "Cast identifiers to integer" *)
cast_identifiers(df) == dropna(set_horse_id(set_race_id(df)), {"race_id", "horse_id"})

RECURSIVE add_missing(_, _)
(* for col in SCHEMA.ordered_columns: if col not in df.columns: df[col] = NA *)
add_missing(cols, df) ==
    IF cols = <<>> THEN df
    ELSE IF Head(cols) \in SeqToSet(df.columns)
         THEN add_missing(Tail(cols), df)
         ELSE add_missing(Tail(cols), SetScalar(df, Head(cols), NA))

(* "Ensure ordering of columns": return df[SCHEMA.ordered_columns] *)
order_columns(df) == Project(add_missing(ordered_columns, df), ordered_columns)

(* clean_fields: [err, df]; df is the returned table when err = NoError *)
clean_fields(df) ==
    LET scan == drop_obs_loop(df.columns, df, "")
    IN IF scan.finish_source = "" /\ "finish_position" \notin SeqToSet(scan.df.columns)
       THEN [err |-> Raise("finish_missing", "clean_fields",
                           {"obs__finish_position", "finish_position"}, NA, NA, 0),
             df |-> EmptyFrame]
       ELSE [err |-> NoError,
             df |-> order_columns(cast_identifiers(row_filter(
                        derive_finish(convert_fields(scan.df), scan.finish_source))))]

----------------------------------------------------------------------------
(* validate_race_invariants *)

invariant_fields == <<"date", "racecourse", "race_type_simple", "distance">>

(* the count test with < in place of != *)
count_differs_below(count, expected) ==
    ~(IsNumber(expected) /\ expected.n <= 10 * count)

(* len(group) != expected *)
count_differs(count, expected) ==
    ~(IsNumber(expected) /\ expected.n = 10 * count)

(* the range test without its lower bound *)
finish_out_of_range_above(finish_vals, expected) ==
    /\ finish_vals # <<>>
    /\ \E i \in 1..Len(finish_vals) : finish_vals[i].n > expected.n

(* not finish_vals.empty and (finish_vals.min() < 1 or finish_vals.max() > expected) *)
finish_out_of_range(finish_vals, expected) ==
    /\ finish_vals # <<>>
    /\ \/ \E i \in 1..Len(finish_vals) : finish_vals[i].n < 10
       \/ \E i \in 1..Len(finish_vals) : finish_vals[i].n > expected.n

(* the check of one group: the error it raises, NoError when it passes *)
check_group(race_id, group) ==
    LET bad == {i \in 1..Len(invariant_fields) :
                   nunique(Column(group, invariant_fields[i])) > 1}
        expected == Column(group, "n_runners")[1]
        count == Len(group.rows)
        finish_vals == series_dropna(astype_int(series_dropna(
                           Column(group, "finish_position"))))
    IN IF bad # {}
       THEN Raise("inconsistent_field", "validate_race_invariants",
                  {invariant_fields[CHOOSE i \in bad : \A j \in bad : i <= j]},
                  race_id, NA, 0)
       ELSE IF count_differs(count, expected)
       THEN Raise("runner_count", "validate_race_invariants", {"n_runners"},
                  race_id, expected, count)
       ELSE IF finish_out_of_range(finish_vals, expected)
       THEN Raise("finish_range", "validate_race_invariants", {"finish_position"},
                  race_id, expected, 0)
       ELSE NoError

(* validate_race_invariants: the error of the first group that fails, in   *)
(* order of first appearance; NoError when it returns                      *)
validate_race_invariants(df) ==
    LET groups == groupby(df, "race_id")
        failing == {g \in 1..Len(groups) :
                       check_group(groups[g].key, groups[g].frame) # NoError}
    IN IF failing = {} THEN NoError
       ELSE LET g == CHOOSE x \in failing : \A y \in failing : x <= y
            IN check_group(groups[g].key, groups[g].frame)

----------------------------------------------------------------------------
(* enforce_chronological_order *)

sort_by == <<"date", "race_time", "race_id">>

(* sort_key(a) < sort_key(b): tuples compare by their first differing item *)
KeyLess(a, b) ==
    \E i \in 1..Len(sort_by) :
        /\ \A j \in 1..(i - 1) : PyEq(Get(a, sort_by[j]), Get(b, sort_by[j]))
        /\ ~PyEq(Get(a, sort_by[i]), Get(b, sort_by[i]))
        /\ Get(a, sort_by[i]).n < Get(b, sort_by[i]).n

(* x placed before every element that is not less than it *)
InsertBeforeEqual(sorted, x) ==
    LET after == {i \in 1..Len(sorted) : ~KeyLess(sorted[i], x)}
        k == IF after = {} THEN Len(sorted) + 1
             ELSE CHOOSE i \in after : \A j \in after : i <= j
    IN SubSeq(sorted, 1, k - 1) \o <<x>> \o SubSeq(sorted, k, Len(sorted))

(* x placed after every element that is not greater than it *)
InsertStable(sorted, x) ==
    LET after == {i \in 1..Len(sorted) : KeyLess(x, sorted[i])}
        k == IF after = {} THEN Len(sorted) + 1
             ELSE CHOOSE i \in after : \A j \in after : i <= j
    IN SubSeq(sorted, 1, k - 1) \o <<x>> \o SubSeq(sorted, k, Len(sorted))

RECURSIVE sorted_stable(_)
(* sorted(rows, key=sort_key): a stable sort *)
sorted_stable(rows) ==
    IF rows = <<>> THEN <<>>
    ELSE InsertStable(sorted_stable(SubSeq(rows, 1, Len(rows) - 1)), rows[Len(rows)])

(* DataFrame.sort_values(by, kind="mergesort") *)
sort_values(df) == DataFrame(df.columns, sorted_stable(df.rows))

(* DataFrame.reset_index(drop=True) *)
reset_index(df) == DataFrame(df.columns, df.rows)

enforce_chronological_order(df) == reset_index(sort_values(df))

----------------------------------------------------------------------------
(* save_cleaned_data *)

(* the text the csv writer puts in a cell: "" for None, isoformat for a    *)
(* datetime, str(value) otherwise                                          *)
format_value(value) ==
    IF isna(value) THEN <<>>
    ELSE IF value.t = "M" THEN isoformat(value.n)
    ELSE PyStrOf(value)

NoFile == [exists |-> FALSE, header |-> <<>>, rows |-> <<>>]

(* DataFrame.to_csv: an empty file when there are no rows, else the header *)
(* line and one line per row                                               *)
to_csv(df) ==
    IF df.rows = <<>>
    THEN [exists |-> TRUE, header |-> <<>>, rows |-> <<>>]
    ELSE [exists |-> TRUE, header |-> df.columns,
          rows |-> [i \in 1..Len(df.rows) |->
                       [k \in SeqToSet(df.columns) |-> format_value(Get(df.rows[i], k))]]]

save_cleaned_data(df) == to_csv(df)

----------------------------------------------------------------------------
(* Input files.  A CSV file is [header, rows], each row a function from    *)
(* the header's names to the cell texts.  The inputs are tables of at most *)
(* MaxRows rows in which a few fields vary over the texts below while the  *)
(* others hold a well-formed default.                                      *)

MaxRows == 2

Date1 == <<"2", "0", "2", "0", "-", "0", "1", "-", "0", "1">>
Date2 == <<"2", "0", "2", "0", "-", "0", "1", "-", "0", "2">>
Time1 == <<"1", "4", ":", "3", "0">>
Time2 == <<"1", "5", ":", "0", "0">>

(* the default text of a cell: row i of a k-row table *)
DefaultCell(col, i, k) ==
    CASE col = "race_id" -> <<"1">>
      [] col = "horse_id" -> NatText(i)
      [] col = "date" -> Date1
      [] col = "race_time" -> Time1
      [] col = "racecourse" -> <<"A">>
      [] col = "race_type_simple" -> <<"F">>
      [] col = "distance" -> <<"5">>
      [] col = "n_runners" -> NatText(k)
      [] col = "draw" -> <<"1">>
      [] col = "age" -> <<"3">>
      [] col = "weight_lbs" -> <<"9">>
      [] col = "finish_position" -> <<"1">>
      [] col = "obs__finish_position" -> <<"1">>
      [] OTHER -> <<"7">>

(* a table over header whose row i is the default but for the cells that   *)
(* choice[i] sets                                                          *)
Table(header, choice) ==
    [header |-> header,
     rows |-> [i \in 1..Len(choice) |->
                 [col \in SeqToSet(header) |->
                     IF col \in DOMAIN choice[i] THEN choice[i][col]
                     ELSE DefaultCell(col, i, Len(choice))]]]

(* the same, with n_runners set to the number of rows sharing the race_id  *)
CountedTable(header, choice) ==
    LET t == Table(header, choice)
        size(i) == Cardinality({j \in 1..Len(choice) :
                                    t.rows[j]["race_id"] = t.rows[i]["race_id"]})
    IN [header |-> header,
        rows |-> [i \in 1..Len(choice) |->
                    [t.rows[i] EXCEPT !["n_runners"] = NatText(size(i))]]]

(* keys: duplicate and missing identifiers, declared counts *)
KeyChoices ==
    [race_id : {<<"1">>, <<"2">>, <<>>}, horse_id : {<<"1">>, <<"2">>},
     n_runners : {<<"1">>, <<"2">>}]

(* order: races over two dates and two times *)
OrderChoices ==
    [race_id : {<<"1">>, <<"2">>}, date : {Date1, Date2}, race_time : {Time1, Time2}]

(* one race whose rows carry at most one doubtful cell each *)
FaultChoices ==
    {<< >>} \cup [age : {<<"0">>, <<>>}] \cup [distance : {<<"-", "1">>, <<>>}]
    \cup [draw : {<<"0">>}] \cup [weight_lbs : {<<>>}]
    \cup [finish_position : {<<"P", "U">>}] \cup [race_time : {<<"x">>}]

(* race-level fields within and across two races *)
VenueChoices ==
    [race_id : {<<"1">>, <<"2">>}, racecourse : {<<"A">>, <<"B">>, <<>>},
     distance : {<<"5">>, <<"6">>}]

(* declared counts against finishing positions in one race *)
FinishChoices ==
    [n_runners : {<<"1">>, <<"2">>, <<"3">>},
     finish_position : {<<"1">>, <<"3">>, <<"0", ".", "4">>, <<"P", "U">>}]

(* headers: the required columns with and without observation columns and  *)
(* with and without the outcome column                                     *)
NoFinishHeader == SelectSeq(ordered_columns, LAMBDA c : c # "finish_position")

Headers ==
    {ordered_columns,
     ordered_columns \o <<"obs__finish_position">>,
     ordered_columns \o <<"obs__speed">>,
     <<"obs__speed", "obs__finish_position">> \o ordered_columns,
     NoFinishHeader \o <<"obs__finish_position">>,
     NoFinishHeader \o <<"obs__speed">>}

ColumnChoices ==
    [finish_position : {<<"1">>, <<"2">>}, obs__finish_position : {<<"1">>, <<"2">>}]

(* schema faults together: a required column absent, an outcome read as a *)
(* float, a repeated key                                                  *)
NoDrawHeader == SelectSeq(ordered_columns, LAMBDA c : c # "draw")

SchemaChoices ==
    [horse_id : {<<"1">>, <<"2">>}, finish_position : {<<"1">>, <<"0", ".", "4">>}]

(* an output file left by an earlier run *)
OldFile == [exists |-> TRUE, header |-> <<"race_id">>, rows |-> <<>>]

Restrict(f, keys) == [k \in DOMAIN f \cap keys |-> f[k]]

----------------------------------------------------------------------------
(* The pipeline: the statements of the module's __main__ block *)

Init ==
    /\ \/ /\ \E k \in 1..MaxRows : \E c \in [1..k -> KeyChoices] :
                csv_in = Table(ordered_columns, c)
          /\ csv_out = NoFile
       \/ /\ \E k \in 1..(MaxRows + 1) : \E c \in [1..k -> OrderChoices] :
                csv_in = CountedTable(ordered_columns, c)
          /\ csv_out = NoFile
       \/ /\ \E k \in 1..MaxRows : \E c \in [1..k -> FaultChoices] :
                csv_in = Table(ordered_columns, c)
          /\ csv_out \in {NoFile, OldFile}
       \/ /\ \E k \in 1..MaxRows : \E c \in [1..k -> VenueChoices] :
                csv_in = CountedTable(ordered_columns, c)
          /\ csv_out = NoFile
       \/ /\ \E k \in 1..MaxRows : \E c \in [1..k -> FinishChoices] :
                csv_in = Table(ordered_columns, c)
          /\ csv_out = NoFile
       \/ /\ \E h \in {ordered_columns, NoDrawHeader} :
                \E k \in 1..MaxRows : \E c \in [1..k -> SchemaChoices] :
                    csv_in = Table(h, c)
          /\ csv_out = NoFile
       \/ /\ \E h \in Headers : \E k \in 0..MaxRows : \E c \in [1..k -> ColumnChoices] :
                csv_in = Table(h, [i \in 1..k |-> Restrict(c[i], SeqToSet(h))])
          /\ csv_out \in {NoFile, OldFile}
    /\ raw_df = EmptyFrame
    /\ cleaned_df = EmptyFrame
    /\ ordered_df = EmptyFrame
    /\ pc = "load_raw_data"
    /\ error = NoError
    /\ completed = <<>>
    /\ arg = NA
    /\ ret = NA

(* control that goes on to the next statement whatever the call did *)
after_call_regardless(err, next_statement) == next_statement

(* where control goes after a call: on to the next statement when it     *)
(* returned, out of the program when it raised                            *)
after_call(err, next_statement) == IF err = NoError THEN next_statement ELSE "aborted"

(* raw_df = load_raw_data() *)
LoadRawData ==
    /\ pc = "load_raw_data"
    /\ raw_df' = load_raw_data(csv_in)
    /\ pc' = after_call(NoError, "validate_schema")
    /\ completed' = Append(completed, "load_raw_data")
    /\ UNCHANGED <<csv_in, cleaned_df, ordered_df, csv_out, error, arg, ret>>

(* validate_schema(raw_df) *)
ValidateSchema ==
    /\ pc = "validate_schema"
    /\ error' = validate_schema(raw_df)
    /\ pc' = after_call(error', "clean_fields")
    /\ completed' = IF error' = NoError THEN Append(completed, "validate_schema")
                    ELSE completed
    /\ UNCHANGED <<csv_in, raw_df, cleaned_df, ordered_df, csv_out, arg, ret>>

(* cleaned_df = clean_fields(raw_df) *)
CleanFields ==
    /\ pc = "clean_fields"
    /\ LET r == clean_fields(raw_df)
       IN /\ error' = r.err
          /\ cleaned_df' = IF r.err = NoError THEN r.df ELSE cleaned_df
    /\ pc' = after_call(error', "validate_race_invariants")
    /\ completed' = IF error' = NoError THEN Append(completed, "clean_fields")
                    ELSE completed
    /\ UNCHANGED <<csv_in, raw_df, ordered_df, csv_out, arg, ret>>

(* validate_race_invariants(cleaned_df) *)
ValidateRaceInvariants ==
    /\ pc = "validate_race_invariants"
    /\ error' = validate_race_invariants(cleaned_df)
    /\ pc' = after_call(error', "enforce_chronological_order")
    /\ completed' = IF error' = NoError THEN Append(completed, "validate_race_invariants")
                    ELSE completed
    /\ UNCHANGED <<csv_in, raw_df, cleaned_df, ordered_df, csv_out, arg, ret>>

(* ordered_df = enforce_chronological_order(cleaned_df) *)
EnforceChronologicalOrder ==
    /\ pc = "enforce_chronological_order"
    /\ ordered_df' = enforce_chronological_order(cleaned_df)
    /\ pc' = after_call(NoError, "save_cleaned_data")
    /\ completed' = Append(completed, "enforce_chronological_order")
    /\ UNCHANGED <<csv_in, raw_df, cleaned_df, csv_out, error, arg, ret>>

(* save_cleaned_data(ordered_df) *)
SaveCleanedData ==
    /\ pc = "save_cleaned_data"
    /\ csv_out' = save_cleaned_data(ordered_df)
    /\ pc' = after_call(NoError, "done")
    /\ completed' = Append(completed, "save_cleaned_data")
    /\ UNCHANGED <<csv_in, raw_df, cleaned_df, ordered_df, error, arg, ret>>

Next ==
    \/ LoadRawData
    \/ ValidateSchema
    \/ CleanFields
    \/ ValidateRaceInvariants
    \/ EnforceChronologicalOrder
    \/ SaveCleanedData

Spec == Init /\ [][Next]_vars

-----------------------------------------------------------------------------
(* _parse_distance called on its own, on one value: null, a number, or a   *)
(* text of at most MaxText characters                                      *)

MaxText == 3

MaxNumber == 2

DistanceChars == {"1", "2", ".", "m", "f", "y", " ", "M", "-"}

TextsUpTo(n) == UNION {[1..k -> DistanceChars] : k \in 0..n}

(* the characters of a text that the loop of _parse_distance does not skip *)
Kept(text) ==
    SelectSeq(lower(strip(text)), LAMBDA c : c \in Digits \cup {".", "m", "f", "y"})

(* no number in the text has more than one digit after its point *)
OneFractionalDigit(text) ==
    \A i \in 1..(Len(Kept(text)) - 2) :
        ~(/\ Kept(text)[i] = "."
          /\ Kept(text)[i + 1] \in Digits
          /\ Kept(text)[i + 2] \in Digits)

DistanceNumbers ==
    {PyInt(k) : k \in (0 - MaxNumber)..MaxNumber}
    \cup {PyFloat(t) : t \in (0 - 10 * MaxNumber)..(10 * MaxNumber)}

DistanceInputs ==
    {NA} \cup DistanceNumbers
    \cup {PyStr(t) : t \in {x \in TextsUpTo(MaxText) : OneFractionalDigit(x)}}

ParserInit ==
    /\ arg \in DistanceInputs
    /\ ret = NA
    /\ pc = "_parse_distance"
    /\ csv_in = [header |-> <<>>, rows |-> <<>>]
    /\ csv_out = NoFile
    /\ raw_df = EmptyFrame
    /\ cleaned_df = EmptyFrame
    /\ ordered_df = EmptyFrame
    /\ error = NoError
    /\ completed = <<>>

(* ret = _parse_distance(arg) *)
ParseDistance ==
    /\ pc = "_parse_distance"
    /\ ret' = parse_distance(arg)
    /\ pc' = "returned"
    /\ UNCHANGED <<csv_in, raw_df, cleaned_df, ordered_df, csv_out, error, completed, arg>>

ParserNext == ParseDistance

ParserSpec == ParserInit /\ [][ParserNext]_vars

-----------------------------------------------------------------------------
(* Properties *)

(* a column name that begins with the five characters o b s _ _ *)
ObsNamed(col) ==
    /\ Len(NameChars(col)) >= 5
    /\ SubSeq(NameChars(col), 1, 5) = <<"o", "b", "s", "_", "_">>

(* C1: whenever clean_fields returns normally, whatever obs__ columns the  *)
(* input carries, no column of the returned table starts with "obs__",    *)
(* and so no column of the ordered table or of the persisted file does.    *)
C1_NoObsColumns ==
    /\ \A i \in 1..Len(cleaned_df.columns) : ~ObsNamed(cleaned_df.columns[i])
    /\ \A i \in 1..Len(ordered_df.columns) : ~ObsNamed(ordered_df.columns[i])
    /\ pc = "done" => \A i \in 1..Len(csv_out.header) : ~ObsNamed(csv_out.header[i])

(* an input with observation columns went through the whole pipeline and   *)
(* rows were persisted                                                     *)
C1_Witness ==
    /\ pc = "done"
    /\ \E i \in 1..Len(raw_df.columns) : ObsNamed(raw_df.columns[i])
    /\ Len(cleaned_df.rows) > 0
    /\ Len(csv_out.rows) > 0

(* C2: after a successful run the (race_id, horse_id) pairs of the         *)
(* persisted rows are pairwise distinct: no two rows of the ordered table  *)
(* hold equal identifiers and no two lines of the file show the same two   *)
(* identifier texts.                                                       *)
C2_DistinctPairs ==
    pc = "done" =>
        /\ \A i, j \in 1..Len(ordered_df.rows) :
              i < j => ~(/\ PyEq(ordered_df.rows[i]["race_id"], ordered_df.rows[j]["race_id"])
                         /\ PyEq(ordered_df.rows[i]["horse_id"], ordered_df.rows[j]["horse_id"]))
        /\ \A i, j \in 1..Len(csv_out.rows) :
              i < j => ~(/\ csv_out.rows[i]["race_id"] = csv_out.rows[j]["race_id"]
                         /\ csv_out.rows[i]["horse_id"] = csv_out.rows[j]["horse_id"])

(* two rows of one race were persisted, told apart by horse_id alone *)
C2_Witness ==
    /\ pc = "done"
    /\ Len(csv_out.rows) >= 2
    /\ csv_out.rows[1]["race_id"] = csv_out.rows[2]["race_id"]
    /\ csv_out.rows[1]["horse_id"] # csv_out.rows[2]["horse_id"]

-----------------------------------------------------------------------------
(* Race-level properties, stated on the rows of the cleaned table without  *)
(* the validator's own grouping                                            *)

(* validate_race_invariants(cleaned_df) has returned *)
InvariantsReturned == "validate_race_invariants" \in SeqToSet(completed)

(* validate_race_invariants(cleaned_df) has raised *)
InvariantsRaised == pc = "aborted" /\ error.stage = "validate_race_invariants"

(* the rows of the cleaned table in the race of row i *)
RaceOf(i) ==
    {j \in 1..Len(cleaned_df.rows) :
        PyEq(cleaned_df.rows[j]["race_id"], cleaned_df.rows[i]["race_id"])}

(* the n_runners the race of row i declares: that of its first row *)
Declared(i) ==
    cleaned_df.rows[CHOOSE j \in RaceOf(i) : \A k \in RaceOf(i) : j <= k]["n_runners"]

CountMatches(i) == Declared(i).n = 10 * Cardinality(RaceOf(i))

(* no race holds two different non-null values of an invariant field *)
FieldsAgree ==
    \A i \in 1..Len(cleaned_df.rows) : \A j \in RaceOf(i) :
        \A f \in {"date", "racecourse", "race_type_simple", "distance"} :
            \/ isna(cleaned_df.rows[i][f])
            \/ isna(cleaned_df.rows[j][f])
            \/ PyEq(cleaned_df.rows[i][f], cleaned_df.rows[j][f])

FinishWithin(i) ==
    \/ isna(cleaned_df.rows[i]["finish_position"])
    \/ /\ cleaned_df.rows[i]["finish_position"].n >= 10
       /\ cleaned_df.rows[i]["finish_position"].n <= Declared(i).n

(* the rows whose race does not have its declared number of rows *)
Miscounted == {i \in 1..Len(cleaned_df.rows) : ~CountMatches(i)}

(* C3: validate_race_invariants returns only if every race has as many     *)
(* rows as its declared n_runners; a race whose count differs makes it     *)
(* raise, and when the counts are the table's only fault the error names   *)
(* the first such race with the expected and the actual count; a count     *)
(* error always names a miscounted race with its two counts.               *)
C3_RunnerCount ==
    /\ InvariantsReturned => Miscounted = {}
    /\ (InvariantsReturned \/ InvariantsRaised) /\ Miscounted # {} => InvariantsRaised
    /\ /\ InvariantsRaised
       /\ Miscounted # {}
       /\ FieldsAgree
       /\ \A i \in 1..Len(cleaned_df.rows) : FinishWithin(i)
       => LET first == CHOOSE i \in Miscounted : \A j \in Miscounted : i <= j
          IN /\ error.kind = "runner_count"
             /\ PyEq(error.race, cleaned_df.rows[first]["race_id"])
             /\ error.expected = Declared(first)
             /\ error.found = Cardinality(RaceOf(first))
    /\ InvariantsRaised /\ error.kind = "runner_count" =>
          \E i \in Miscounted :
             /\ PyEq(error.race, cleaned_df.rows[i]["race_id"])
             /\ error.expected = Declared(i)
             /\ error.found = Cardinality(RaceOf(i))

(* a race declared more runners than the rows that survived filtering and  *)
(* the validator raised the count error                                    *)
C3_Witness ==
    /\ InvariantsRaised
    /\ error.kind = "runner_count"
    /\ Len(cleaned_df.rows) >= 1
    /\ Len(cleaned_df.rows) < Len(raw_df.rows)
    /\ 10 * error.found < error.expected.n

(* C4: after validate_race_invariants returns, every non-null              *)
(* finish_position v satisfies 1 <= v <= the n_runners of its race; a      *)
(* table holding a non-null finish_position outside that range makes it    *)
(* raise.                                                                  *)
C4_FinishInRange ==
    /\ InvariantsReturned => \A i \in 1..Len(cleaned_df.rows) : FinishWithin(i)
    /\ /\ InvariantsReturned \/ InvariantsRaised
       /\ \E i \in 1..Len(cleaned_df.rows) : ~FinishWithin(i)
       => InvariantsRaised

(* a race with the declared number of rows held a finish_position outside  *)
(* the range and the validator raised the range error                      *)
C4_Witness ==
    /\ InvariantsRaised
    /\ error.kind = "finish_range"
    /\ \E i \in 1..Len(cleaned_df.rows) :
          /\ ~isna(cleaned_df.rows[i]["finish_position"])
          /\ ~FinishWithin(i)

(* C5: validate_race_invariants accepts a race only if each of date,       *)
(* racecourse, race_type_simple and distance has exactly one distinct      *)
(* non-null value across the race's rows: a field with several values, or  *)
(* with no non-null value at all, makes it raise.                          *)
C5_ExactlyOneValue ==
    InvariantsReturned =>
        \A i \in 1..Len(cleaned_df.rows) :
            \A f \in {"date", "racecourse", "race_type_simple", "distance"} :
                /\ \E j \in RaceOf(i) : ~isna(cleaned_df.rows[j][f])
                /\ \A j, k \in RaceOf(i) :
                      \/ isna(cleaned_df.rows[j][f])
                      \/ isna(cleaned_df.rows[k][f])
                      \/ PyEq(cleaned_df.rows[j][f], cleaned_df.rows[k][f])

-----------------------------------------------------------------------------
(* Ordering *)

(* the key (date, race_time, race_id) of a row, as numbers *)
KeyOf(row) == <<row["date"].n, row["race_time"].n, row["race_id"].n>>

(* a key strictly before another in lexicographic order *)
Before(a, b) ==
    \/ a[1] < b[1]
    \/ a[1] = b[1] /\ a[2] < b[2]
    \/ a[1] = b[1] /\ a[2] = b[2] /\ a[3] < b[3]

(* C6: enforce_chronological_order returns a permutation of its input rows *)
(* that is non-decreasing in (date, race_time, race_id) and keeps rows of  *)
(* equal key in their input order; applied to its own result it returns    *)
(* that table unchanged.                                                   *)
C6_StableSort ==
    "enforce_chronological_order" \in SeqToSet(completed) =>
        /\ ordered_df.columns = cleaned_df.columns
        /\ Len(ordered_df.rows) = Len(cleaned_df.rows)
        /\ \E p \in Permutations(1..Len(cleaned_df.rows)) :
              /\ \A i \in 1..Len(ordered_df.rows) : ordered_df.rows[i] = cleaned_df.rows[p[i]]
              /\ \A i, j \in 1..Len(ordered_df.rows) :
                    i < j =>
                      /\ ~Before(KeyOf(ordered_df.rows[j]), KeyOf(ordered_df.rows[i]))
                      /\ KeyOf(ordered_df.rows[i]) = KeyOf(ordered_df.rows[j]) => p[i] < p[j]
        /\ enforce_chronological_order(ordered_df) = ordered_df

(* the sort moved a row and the table holds two rows of equal key *)
C6_Witness ==
    /\ "enforce_chronological_order" \in SeqToSet(completed)
    /\ ordered_df.rows # cleaned_df.rows
    /\ \E i, j \in 1..Len(ordered_df.rows) :
          i < j /\ KeyOf(ordered_df.rows[i]) = KeyOf(ordered_df.rows[j])

-----------------------------------------------------------------------------
(* Row filter *)

(* a number strictly above zero *)
Positive(value) == value.t \in {"i", "f"} /\ value.n > 0

(* C7: whenever clean_fields returns, every row of its result has          *)
(* distance > 0, age > 0 and n_runners > 0.                                *)
C7_PositiveEssentials ==
    "clean_fields" \in SeqToSet(completed) =>
        \A i \in 1..Len(cleaned_df.rows) :
            /\ Positive(cleaned_df.rows[i]["distance"])
            /\ Positive(cleaned_df.rows[i]["age"])
            /\ Positive(cleaned_df.rows[i]["n_runners"])

(* clean_fields returned a table from which it had removed a row with a    *)
(* null or non-positive age or distance, keeping another                   *)
C7_Witness ==
    /\ "clean_fields" \in SeqToSet(completed)
    /\ Len(cleaned_df.rows) >= 1
    /\ \E i \in 1..Len(raw_df.rows) :
          /\ \/ ~Positive(raw_df.rows[i]["age"])
             \/ ~Positive(raw_df.rows[i]["distance"])
          /\ \A j \in 1..Len(cleaned_df.rows) :
                ~PyEq(cleaned_df.rows[j]["horse_id"], raw_df.rows[i]["horse_id"])

(* C8: in the dataset the pipeline persists, every row has a strictly      *)
(* positive, non-null distance, age, weight_lbs and draw, and              *)
(* n_runners > 0.                                                          *)
C8_AllNumericPositive ==
    pc = "done" =>
        \A i \in 1..Len(ordered_df.rows) :
            \A f \in {"distance", "age", "weight_lbs", "draw", "n_runners"} :
                Positive(ordered_df.rows[i][f])

(* C9: in the dataset the pipeline persists, every row has a non-null      *)
(* race_id, horse_id, date, race_time and finish_position.                 *)
C9_NoMissingCritical ==
    pc = "done" =>
        \A i \in 1..Len(csv_out.rows) :
            \A f \in {"race_id", "horse_id", "date", "race_time", "finish_position"} :
                /\ ~isna(ordered_df.rows[i][f])
                /\ csv_out.rows[i][f] # <<>>

-----------------------------------------------------------------------------
(* Order of the stages *)

(* the calls that precede save_cleaned_data *)
StagesBeforeSave ==
    <<"load_raw_data", "validate_schema", "clean_fields",
      "validate_race_invariants", "enforce_chronological_order">>

(* C10: save_cleaned_data runs only after validate_schema, clean_fields,   *)
(* validate_race_invariants and enforce_chronological_order have all       *)
(* returned without error; a stage that raises ends the run there, and     *)
(* the output file is neither created nor modified.                        *)
C10_SaveOnlyAfterAllStages ==
    [][/\ csv_out' # csv_out => completed = StagesBeforeSave /\ error = NoError
       /\ "save_cleaned_data" \in SeqToSet(completed') =>
              SubSeq(completed', 1, Len(StagesBeforeSave)) = StagesBeforeSave
       /\ error' # NoError => pc' = "aborted" /\ csv_out' = csv_out
       /\ pc # "aborted" /\ error = NoError]_vars

(* validate_race_invariants raised after three stages had returned, and    *)
(* the file of an earlier run is still as it was                           *)
C10_Witness ==
    /\ pc = "aborted"
    /\ error.stage = "validate_race_invariants"
    /\ completed = <<"load_raw_data", "validate_schema", "clean_fields">>
    /\ csv_out = OldFile

-----------------------------------------------------------------------------
(* Outcome label *)

(* the rows of cleaned_df that come from row i of raw_df *)
CleanedFrom(i) ==
    {j \in 1..Len(cleaned_df.rows) :
        /\ PyEq(cleaned_df.rows[j]["race_id"], raw_df.rows[i]["race_id"])
        /\ PyEq(cleaned_df.rows[j]["horse_id"], raw_df.rows[i]["horse_id"])}

(* C11: clean_fields removes every obs__ column and reads the outcome      *)
(* label from obs__finish_position only when the input has no              *)
(* finish_position column; when the input has both, the output             *)
(* finish_position is derived from the input's finish_position.            *)
C11_ExistingFinishIsSource ==
    "clean_fields" \in SeqToSet(completed) =>
        /\ \A k \in 1..Len(cleaned_df.columns) : ~ObsNamed(cleaned_df.columns[k])
        /\ \A i \in 1..Len(raw_df.rows) : \A j \in CleanedFrom(i) :
              LET source == IF "finish_position" \in SeqToSet(raw_df.columns)
                            THEN "finish_position" ELSE "obs__finish_position"
              IN cleaned_df.rows[j]["finish_position"]
                     = finish_label(<<raw_df.rows[i][source]>>)[1]

(* the input file has neither outcome column but every other required one *)
NoOutcomeColumn ==
    /\ "finish_position" \notin SeqToSet(csv_in.header)
    /\ "obs__finish_position" \notin SeqToSet(csv_in.header)
    /\ SeqToSet(ordered_columns) \ {"finish_position"} \subseteq SeqToSet(csv_in.header)

(* C12 as stated: a run on an input with neither obs__finish_position nor  *)
(* finish_position fails inside clean_fields, not at an earlier stage.     *)
C12_FailsInCleanFields ==
    NoOutcomeColumn /\ pc \in {"aborted", "done"} =>
        /\ pc = "aborted"
        /\ error.stage = "clean_fields"
        /\ error.kind = "finish_missing"

(* C12 as amended: a run on an input with neither outcome column fails in  *)
(* validate_schema, with the missing-columns error naming finish_position, *)
(* and clean_fields is never called.                                       *)
C12_FailsInValidateSchema ==
    NoOutcomeColumn /\ pc \notin {"load_raw_data", "validate_schema"} =>
        /\ pc = "aborted"
        /\ error.stage = "validate_schema"
        /\ error.kind = "missing_columns"
        /\ "finish_position" \in error.cols
        /\ completed = <<"load_raw_data">>
        /\ cleaned_df = EmptyFrame

(* a file with rows and neither outcome column was loaded and rejected     *)
C12_Witness ==
    /\ NoOutcomeColumn
    /\ Len(raw_df.rows) >= 1
    /\ pc = "aborted"
    /\ error.cols = {"finish_position"}

-----------------------------------------------------------------------------
(* Output file *)

(* C13: whenever a run completes, whatever the number of rows that survive *)
(* filtering, zero included, the written file has a header row holding     *)
(* exactly the twelve schema columns in their declared order.              *)
C13_HeaderAlwaysWritten ==
    pc = "done" =>
        /\ csv_out.exists
        /\ csv_out.header =
              <<"race_id", "horse_id", "date", "race_time", "racecourse",
                "race_type_simple", "distance", "n_runners", "draw", "age",
                "weight_lbs", "finish_position">>

-----------------------------------------------------------------------------
(* Schema validation *)

(* validate_schema(raw_df) has returned or raised *)
SchemaChecked == pc \notin {"load_raw_data", "validate_schema"}

(* the required columns the loaded table lacks *)
Absent == {col \in SeqToSet(ordered_columns) : col \notin SeqToSet(raw_df.columns)}

(* the required columns, by position, that are present with a kind their   *)
(* declared type does not accept                                           *)
Mistyped ==
    {i \in 1..Len(ordered_columns) :
        /\ ordered_columns[i] \in SeqToSet(raw_df.columns)
        /\ ~dtype_ok(raw_df, ordered_columns[i])}

(* two rows of the loaded table share race_id and horse_id *)
RepeatedKey ==
    \E i, j \in 1..Len(raw_df.rows) :
        /\ i < j
        /\ PyEq(Get(raw_df.rows[i], "race_id"), Get(raw_df.rows[j], "race_id"))
        /\ PyEq(Get(raw_df.rows[i], "horse_id"), Get(raw_df.rows[j], "horse_id"))

(* C14: validate_schema checks (1) missing required columns, (2) the kind  *)
(* of each required column, (3) duplicate (race_id, horse_id) pairs, in    *)
(* that order: a table with several faults gets the error of the earliest  *)
(* failed check, and a table with a duplicate key is rejected before       *)
(* clean_fields runs.                                                      *)
C14_CheckOrder ==
    SchemaChecked =>
        /\ Absent # {} =>
              /\ error.stage = "validate_schema"
              /\ error.kind = "missing_columns"
              /\ error.cols = Absent
        /\ Absent = {} /\ Mistyped # {} =>
              /\ error.stage = "validate_schema"
              /\ error.kind = "dtype"
              /\ error.cols =
                    {ordered_columns[CHOOSE i \in Mistyped : \A j \in Mistyped : i <= j]}
        /\ Absent = {} /\ Mistyped = {} /\ RepeatedKey =>
              /\ error.stage = "validate_schema"
              /\ error.kind = "duplicate_key"
        /\ RepeatedKey =>
              /\ pc = "aborted"
              /\ error.stage = "validate_schema"
              /\ "clean_fields" \notin SeqToSet(completed)
              /\ cleaned_df = EmptyFrame
        /\ Absent = {} /\ Mistyped = {} /\ ~RepeatedKey =>
              "validate_schema" \in SeqToSet(completed)

(* a table with a missing column, a mistyped column and a repeated key     *)
(* was rejected for the missing column                                     *)
C14_Witness ==
    /\ SchemaChecked
    /\ Absent # {}
    /\ Mistyped # {}
    /\ RepeatedKey
    /\ error.kind = "missing_columns"

-----------------------------------------------------------------------------
(* Distance parser *)

(* C15: for every input value, null, a plain number (zero and negative     *)
(* numbers included) or text, _parse_distance returns null or a strictly   *)
(* positive number of yards; a text of miles, furlongs and yards tokens    *)
(* gives miles * 1760 + furlongs * 220 + yards plus a trailing number      *)
(* without unit.                                                           *)
C15_NullOrPositiveYards ==
    pc = "returned" =>
        /\ isna(ret) \/ (ret.t = "f" /\ ret.n > 0)
        /\ \A d, e \in {"1", "2"} :
              /\ arg = PyStr(<<d, "m", e>>) =>
                    ret = PyFloat(10 * (DigitVal(d) * 1760 + DigitVal(e)))
              /\ arg = PyStr(<<d, "f", e>>) =>
                    ret = PyFloat(10 * (DigitVal(d) * 220 + DigitVal(e)))
              /\ arg = PyStr(<<d, "y", e>>) =>
                    ret = PyFloat(10 * (DigitVal(d) + DigitVal(e)))
              /\ arg = PyStr(<<d, e, "f">>) =>
                    ret = PyFloat(10 * (10 * DigitVal(d) + DigitVal(e)) * 220)

-----------------------------------------------------------------------------
(* Outcome rounding *)

(* the raw outcome value of row i of raw_df: that of the column            *)
(* clean_fields reads                                                      *)
RawOutcome(i) ==
    IF "obs__finish_position" \in SeqToSet(raw_df.columns)
    THEN raw_df.rows[i]["obs__finish_position"]
    ELSE raw_df.rows[i]["finish_position"]

(* C16: the finish_position clean_fields stores is null when the raw value *)
(* is null, a non-finish code (whatever its case and surrounding blanks),  *)
(* text that is no number, or a number <= 0; otherwise it is the number    *)
(* rounded to the nearest whole; so every non-null finish_position of the  *)
(* output is an integer >= 1, also for positive fractions below 1.         *)
C16_FinishAtLeastOne ==
    "clean_fields" \in SeqToSet(completed) =>
        /\ \A j \in 1..Len(cleaned_df.rows) :
              \/ isna(cleaned_df.rows[j]["finish_position"])
              \/ /\ cleaned_df.rows[j]["finish_position"].t = "i"
                 /\ cleaned_df.rows[j]["finish_position"].n % 10 = 0
                 /\ cleaned_df.rows[j]["finish_position"].n >= 10
        /\ \A i \in 1..Len(raw_df.rows) : \A j \in CleanedFrom(i) :
              LET raw == RawOutcome(i)
                  out == cleaned_df.rows[j]["finish_position"]
                  num == PyFloatOf(IF raw.t = "s" THEN PyStr(strip(raw.s)) ELSE raw)
              IN IF isna(raw) \/ ~num.ok \/ num.n <= 0
                 THEN isna(out)
                 ELSE /\ out.t = "i"
                      /\ out.n - num.n <= 5
                      /\ num.n - out.n <= 5

-----------------------------------------------------------------------------
(* Declared count on every row *)

(* C17: after validate_race_invariants returns, n_runners is constant      *)
(* within every race: each row's own n_runners equals the number of rows   *)
(* of its race, and each non-null finish_position is at most the           *)
(* n_runners of its own row.                                               *)
C17_CountOnEveryRow ==
    InvariantsReturned =>
        \A i \in 1..Len(cleaned_df.rows) :
            /\ cleaned_df.rows[i]["n_runners"].n = 10 * Cardinality(RaceOf(i))
            /\ \/ isna(cleaned_df.rows[i]["finish_position"])
               \/ cleaned_df.rows[i]["finish_position"].n
                     <= cleaned_df.rows[i]["n_runners"].n

====
